---- MODULE Spec2Model ----
(***************************************************************************)
(* Model of src/sources/kubernetes_logs/pod_metadata_annotator.rs :        *)
(* PodMetadataAnnotator::annotate and the field projectors it calls, with  *)
(* the reflector store it reads being updated by the watch in the          *)
(* background.                                                             *)
(*                                                                         *)
(* Strings are sequences of tokens in which the delimiters "/", "_" and    *)
(* "." are tokens of their own ("a.b" is <<"a", ".", "b">>), so that       *)
(* splitting a file path and keeping a label key whole are computations.   *)
(* An Option is a sequence of length 0 (None) or 1 (Some).                 *)
(***************************************************************************)
EXTENDS Naturals, Sequences, FiniteSets, TLC

VARIABLES
  fields_spec,   \* PodMetadataAnnotator.fields_spec
  cluster,       \* the pod objects the watch delivers in this behaviour
  cache,         \* PodMetadataAnnotator.pods_state_reader: ObjectRef -> Pod
  event,         \* the LogEvent of the call: leaf path -> value
  event0,        \* the LogEvent as it was handed to the call
  pc,            \* "idle", "found", "done", "panicked", "tested"
  file,          \* the file argument of the call (None before a call)
  file_info,     \* parse_log_file_path(file) as seen by the call
  resource,      \* what pods_state_reader.get returned to the call
  reads,         \* number of pods_state_reader.get calls of the call
  inserts,       \* the log.insert calls of the call, in order
  ret,           \* the call's return value
  previous       \* how the call before this one, on the same event, ended

vars == <<fields_spec, cluster, cache, event, event0, pc, file, file_info,
          resource, reads, inserts, ret, previous>>

\* Longest owner-reference, container, container-status and pod-IP list.
MaxListLen == 2

\* ---------------------------------------------------------------- options

None == <<>>

Some(x) == <<x>>

\* ---------------------------------------------------------------- strings

RECURSIVE SplitAcc(_, _, _, _)
SplitAcc(s, d, cur, acc) ==
  IF s = <<>> THEN Append(acc, cur)
  ELSE IF Head(s) = d THEN SplitAcc(Tail(s), d, <<>>, Append(acc, cur))
  ELSE SplitAcc(Tail(s), d, Append(cur, Head(s)), acc)

\* str::split: the pieces of s between the occurrences of the delimiter d.
Split(s, d) == SplitAcc(s, d, <<>>, <<>>)

\* format!("{}/{}", kind, name)
FormatOwner(kind, name) == kind \o <<"/">> \o name

\* ---------------------------------------------------------------- paths

\* p is a prefix of q (or equal to it)
IsPrefix(p, q) == Len(p) <= Len(q) /\ SubSeq(q, 1, Len(p)) = p

Overlap(p, q) == IsPrefix(p, q) \/ IsPrefix(q, p)

\* the key parsed as a dotted path expression
path_parsed(key) == Split(key, ".")

\* path!(key): the key as ONE field segment, whatever it holds.
path(key) == <<key>>

\* (&prefix.path).concat(key_path)
concat(prefix, key_path) == prefix \o key_path

\* ---------------------------------------------------------------- values

Bytes(s) == [kind |-> "bytes", bytes |-> s, array |-> <<>>]

Array(l) == [kind |-> "array", bytes |-> <<>>, array |-> l]

\* LogEvent::insert: the value at p replaces what was at p, below p, and any
\* non-object value on the way to p.
Insert(log, p, v) ==
  LET keep == {q \in DOMAIN log : ~Overlap(p, q)}
  IN  [q \in keep \cup {p} |-> IF q = p THEN v ELSE log[q]]

RECURSIVE ApplyInserts(_, _)
ApplyInserts(log, ws) ==
  IF ws = <<>> THEN log
  ELSE ApplyInserts(Insert(log, Head(ws).path, Head(ws).value), Tail(ws))

EmptyLog == [q \in {} |-> Bytes(<<>>)]

\* ---------------------------------------------------------------- FieldsSpec

Slots ==
  {"pod_name", "pod_namespace", "pod_uid", "pod_ip", "pod_ips", "pod_labels",
   "pod_annotations", "pod_node_name", "pod_owner", "container_name",
   "container_id", "container_image"}

\* owned_value_path!("kubernetes", leaf)
KubernetesPath(leaf) == << <<"kubernetes">>, <<leaf>> >>

\* impl Default for FieldsSpec
DefaultFieldsSpec == [s \in Slots |-> Some(KubernetesPath(s))]

\* OptionalTargetPath::none() in every slot of the set off
Disable(fs, off) == [s \in Slots |-> IF s \in off THEN None ELSE fs[s]]

HalfOfSlots == {"pod_name", "pod_uid", "pod_labels", "pod_node_name", "pod_ip", "container_id"}

\* the FieldsSpec of tests::test_annotate_from_metadata, third case
TestMetadataFieldsSpec ==
  [DefaultFieldsSpec EXCEPT !["pod_name"] = Some(<< <<"name">> >>),
                            !["pod_namespace"] = Some(<< <<"ns">> >>),
                            !["pod_uid"] = Some(<< <<"uid">> >>),
                            !["pod_labels"] = Some(<< <<"labels">> >>),
                            !["pod_annotations"] = None]

\* the FieldsSpec of tests::test_annotate_from_pod_status, fourth case, with the
\* custom paths of the other projectors' tests
TestCustomFieldsSpec ==
  [DefaultFieldsSpec EXCEPT !["pod_ip"] = Some(KubernetesPath("custom_pod_ip")),
                            !["pod_ips"] = Some(KubernetesPath("custom_pod_ips")),
                            !["pod_node_name"] = Some(<< <<"node_name">> >>),
                            !["container_name"] = Some(<< <<"container_name">> >>),
                            !["container_image"] = Some(<< <<"container_image">> >>)]

\* a configuration whose output paths overlap: two slots at one path, the two
\* maps under one prefix, a scalar slot at a child of the label prefix
OverlappingFieldsSpec ==
  [DefaultFieldsSpec EXCEPT !["pod_uid"] = Some(KubernetesPath("pod_name")),
                            !["pod_annotations"] = Some(KubernetesPath("pod_labels")),
                            !["container_id"] =
                               Some(KubernetesPath("pod_labels") \o << <<"tier">> >>),
                            !["pod_ips"] = Some(<< <<"kubernetes">> >>)]

FieldsSpecs ==
  {DefaultFieldsSpec,
   Disable(DefaultFieldsSpec, Slots),
   Disable(DefaultFieldsSpec, HalfOfSlots),
   Disable(DefaultFieldsSpec, Slots \ HalfOfSlots),
   TestMetadataFieldsSpec,
   TestCustomFieldsSpec,
   OverlappingFieldsSpec}

\* ---------------------------------------------------------------- file paths

\* "/var/log/pods/<ns>_<pod>_<uid>/<container>/<n>.log"
LogFile(ns, pod, uid, container, n) ==
  <<"/", "var", "/", "log", "/", "pods", "/">> \o ns \o <<"_">> \o pod \o <<"_">>
    \o uid \o <<"/">> \o container \o <<"/", n, ".", "log">>

\* super::path_helpers::parse_log_file_path: Some(LogFileInfo) for a path of the
\* shape ".../<namespace>_<pod_name>_<pod_uid>/<container_name>/*.log", else None.
parse_log_file_path(f) ==
  LET components == Split(f, "/")
      n == Len(components)
      log_file_name == components[n]
      container_name == components[n - 1]
      pod_dir == Split(components[n - 2], "_")
  IN  IF n < 3 THEN None
      ELSE IF Len(log_file_name) < 3
              \/ SubSeq(log_file_name, Len(log_file_name) - 1, Len(log_file_name))
                   # <<".", "log">>
           THEN None
      ELSE IF container_name = <<>> THEN None
      ELSE IF Len(pod_dir) # 3 \/ \E i \in 1..3 : pod_dir[i] = <<>> THEN None
      ELSE Some([pod_namespace |-> pod_dir[1], pod_name |-> pod_dir[2],
                 pod_uid |-> pod_dir[3], container_name |-> container_name])

Files ==
  {LogFile(<<"ns0">>, <<"pod0">>, <<"uid0">>, <<"app">>, "1"),
   LogFile(<<"ns0">>, <<"pod0">>, <<"uid0">>, <<"sidecar">>, "0"),
   LogFile(<<"ns0">>, <<"pod0">>, <<"uid9">>, <<"app">>, "1"),
   LogFile(<<"ns1">>, <<"pod0">>, <<"uid5">>, <<"app">>, "1"),
   <<"/", "var", "/", "log", "/", "syslog">>,
   <<"/", "var", "/", "log", "/", "pods", "/", "ns0", "_", "pod0", "/", "app", "/",
     "1", ".", "log">>}

\* ---------------------------------------------------------------- pods

SeqsUpTo(S, n) == UNION {[1..k -> S] : k \in 0..n}

Opt(S) == {None} \cup {Some(x) : x \in S}

ip1 == <<"10", ".", "0", ".", "0", ".", "1">>

ip2 == <<"fd00", ":", ":", "2">>

BaseMeta ==
  [name |-> Some(<<"pod0">>), namespace |-> Some(<<"ns0">>), uid |-> Some(<<"uid0">>),
   owner_references |-> None,
   labels |-> Some(<<[key |-> <<"tier">>, val |-> <<"web">>]>>),
   annotations |-> None]

BaseSpec ==
  [node_name |-> Some(<<"node1">>),
   containers |-> <<[name |-> <<"app">>, image |-> Some(<<"img:v1">>)]>>]

BaseStatus ==
  [pod_ip |-> Some(ip1), pod_ips |-> None,
   container_statuses |-> Some(<<[name |-> <<"app">>, container_id |-> Some(<<"cid1">>)]>>)]

\* the pod of the end-to-end scenario
BasePod == [metadata |-> BaseMeta, spec |-> Some(BaseSpec), status |-> Some(BaseStatus)]

OwnerRefs ==
  {[kind |-> <<"ReplicaSet">>, name |-> <<"rs0">>], [kind |-> <<"Job">>, name |-> <<"job0">>]}

\* BTreeMap<String, String>, as its entries in iteration (key) order
Maps ==
  {<<>>,
   <<[key |-> <<"tier">>, val |-> <<"web">>]>>,
   <<[key |-> <<"a">>, val |-> <<"v0">>], [key |-> <<"a", ".", "b">>, val |-> <<"v1">>]>>,
   <<[key |-> <<"a", ".", "b">>, val |-> <<"v1">>],
     [key |-> <<"a", ".", "b", ".", "c">>, val |-> <<"v2">>],
     [key |-> <<"app", ".", "kubernetes", ".", "io", "/", "name">>, val |-> <<"v3">>]>>}

Containers ==
  {[name |-> <<"app">>, image |-> Some(<<"img:v1">>)],
   [name |-> <<"app">>, image |-> None],
   [name |-> <<"sidecar">>, image |-> Some(<<"img:v3">>)]}

ContainerStatuses ==
  {[name |-> <<"app">>, container_id |-> Some(<<"cid1">>)],
   [name |-> <<"app">>, container_id |-> None],
   [name |-> <<"sidecar">>, container_id |-> Some(<<"cid3">>)]}

PodIPs == {[ip |-> None], [ip |-> Some(ip1)], [ip |-> Some(ip2)]}

Metas ==
  {[BaseMeta EXCEPT !.uid = u, !.owner_references = o] :
     u \in Opt({<<"uid0">>}), o \in Opt(SeqsUpTo(OwnerRefs, MaxListLen))}
  \cup {[BaseMeta EXCEPT !.labels = l, !.annotations = a] : l \in Opt(Maps), a \in Opt(Maps)}

Specs ==
  {None}
  \cup {Some([BaseSpec EXCEPT !.node_name = None])}
  \cup {Some([BaseSpec EXCEPT !.containers = c]) : c \in SeqsUpTo(Containers, MaxListLen)}

Statuses ==
  {None}
  \cup {Some([BaseStatus EXCEPT !.pod_ip = i, !.pod_ips = l]) :
          i \in Opt({ip1}), l \in Opt(SeqsUpTo(PodIPs, MaxListLen))}
  \cup {Some([BaseStatus EXCEPT !.container_statuses = c]) :
          c \in Opt(SeqsUpTo(ContainerStatuses, MaxListLen))}

Pods ==
  {[BasePod EXCEPT !.metadata = m] : m \in Metas}
  \cup {[BasePod EXCEPT !.spec = s] : s \in Specs}
  \cup {[BasePod EXCEPT !.status = s] : s \in Statuses}

\* a later version of the pod ns0/pod0: every attribute differs from BasePod's
PodV2 ==
  [metadata |->
     [name |-> Some(<<"pod0">>), namespace |-> Some(<<"ns0">>), uid |-> Some(<<"uid2">>),
      owner_references |-> Some(<<[kind |-> <<"Job">>, name |-> <<"job2">>]>>),
      labels |-> Some(<<[key |-> <<"tier">>, val |-> <<"db">>]>>),
      annotations |-> Some(<<[key |-> <<"note">>, val |-> <<"x">>]>>)],
   spec |->
     Some([node_name |-> Some(<<"node2">>),
           containers |-> <<[name |-> <<"app">>, image |-> Some(<<"img:v2">>)],
                            [name |-> <<"sidecar">>, image |-> Some(<<"img:v4">>)]>>]),
   status |->
     Some([pod_ip |-> Some(ip2), pod_ips |-> Some(<<[ip |-> Some(ip2)]>>),
           container_statuses |->
             Some(<<[name |-> <<"app">>, container_id |-> Some(<<"cid2">>)],
                    [name |-> <<"sidecar">>, container_id |-> Some(<<"cid4">>)]>>)])]

\* the pod of the same name in another namespace
PodNs1 ==
  [PodV2 EXCEPT !.metadata.namespace = Some(<<"ns1">>), !.metadata.uid = Some(<<"uid5">>)]

\* the pod objects of one behaviour: a pod and a later version of it, or the
\* same pod name in two namespaces
Clusters == {{p, PodV2} : p \in Pods} \cup {{BasePod, PodNs1}}

\* the ObjectMeta values handed to annotate_from_metadata on its own
TestMetas ==
  {[name |-> n, namespace |-> ns, uid |-> u, owner_references |-> None,
    labels |-> l, annotations |-> None] :
     n \in Opt({<<"sandbox0-name">>}), ns \in Opt({<<"sandbox0-ns">>}),
     u \in Opt({<<"sandbox0-uid">>}), l \in {None, Some(<<>>)}}

\* the LogEvent handed to a call: empty, or a log line that already holds fields
PriorLog ==
  ApplyInserts(EmptyLog,
    <<[path |-> << <<"message">> >>, value |-> Bytes(<<"hello">>)],
      [path |-> KubernetesPath("pod_name"), value |-> Bytes(<<"stale">>)],
      [path |-> KubernetesPath("pod_ips"), value |-> Array(<<ip1>>)]>>)

Events == {EmptyLog, PriorLog}

\* ---------------------------------------------------------------- projectors
\* Each projector is the sequence of log.insert calls it makes, in order; an
\* insert is tagged with the FieldsSpec slot whose path it was made for.

InsertCall(slot, p, v) == [slot |-> slot, path |-> p, value |-> v]

\* the slot's default path used when the slot is disabled
insert_ignoring_disabled(fs, slot, val) ==
  IF val # None
  THEN <<InsertCall(slot, IF fs[slot] # None THEN fs[slot][1] ELSE KubernetesPath(slot),
                    Bytes(val[1]))>>
  ELSE <<>>

\* an empty string written for an absent attribute
insert_placeholder(fs, slot, val) ==
  IF fs[slot] # None
  THEN <<InsertCall(slot, fs[slot][1], Bytes(IF val # None THEN val[1] ELSE <<>>))>>
  ELSE <<>>

\* if let (Some(key), Some(val)) = (&key.path, val) { log.insert(key, val.to_owned()) }
insert_if_some(fs, slot, val) ==
  IF fs[slot] # None /\ val # None
  THEN <<InsertCall(slot, fs[slot][1], Bytes(val[1]))>>
  ELSE <<>>

\* the pod name of the path written in place of its container name
annotate_from_file_info_pod_name(fs, fi) ==
  IF fs["container_name"] # None
  THEN <<InsertCall("container_name", fs["container_name"][1], Bytes(fi.pod_name))>>
  ELSE <<>>

annotate_from_file_info(fs, fi) ==
  IF fs["container_name"] # None
  THEN <<InsertCall("container_name", fs["container_name"][1], Bytes(fi.container_name))>>
  ELSE <<>>

\* the loop over (pod_name, name), (pod_namespace, namespace), (pod_uid, uid)
metadata_fields(fs, metadata) ==
  insert_if_some(fs, "pod_name", metadata.name)
    \o insert_if_some(fs, "pod_namespace", metadata.namespace)
    \o insert_if_some(fs, "pod_uid", metadata.uid)

\* owner_references[0] of an empty Vec: index out of bounds
owner_reference_panics(fs, metadata) ==
  /\ fs["pod_owner"] # None
  /\ metadata.owner_references # None
  /\ Len(metadata.owner_references[1]) = 0

\* the last owner reference instead of the first
owner_reference_last(fs, metadata) ==
  IF fs["pod_owner"] # None /\ metadata.owner_references # None
  THEN LET owner_references == metadata.owner_references[1]
           n == Len(owner_references)
       IN  <<InsertCall("pod_owner", fs["pod_owner"][1],
                        Bytes(FormatOwner(owner_references[n].kind,
                                          owner_references[n].name)))>>
  ELSE <<>>

owner_reference(fs, metadata) ==
  IF fs["pod_owner"] # None /\ metadata.owner_references # None
  THEN LET owner_references == metadata.owner_references[1]
       IN  <<InsertCall("pod_owner", fs["pod_owner"][1],
                        Bytes(FormatOwner(owner_references[1].kind,
                                          owner_references[1].name)))>>
  ELSE <<>>

\* for (key, val) in map.iter() { log.insert(prefix.concat(path!(key)), val) }
map_entries(slot, prefix, map) ==
  [i \in 1..Len(map) |->
     InsertCall(slot, concat(prefix, path(map[i].key)), Bytes(map[i].val))]

pod_labels(fs, metadata) ==
  IF metadata.labels # None /\ fs["pod_labels"] # None
  THEN map_entries("pod_labels", fs["pod_labels"][1], metadata.labels[1])
  ELSE <<>>

pod_annotations(fs, metadata) ==
  IF metadata.annotations # None /\ fs["pod_annotations"] # None
  THEN map_entries("pod_annotations", fs["pod_annotations"][1], metadata.annotations[1])
  ELSE <<>>

\* the inserts made before the function returns or panics
annotate_from_metadata(fs, metadata) ==
  metadata_fields(fs, metadata)
    \o (IF owner_reference_panics(fs, metadata) THEN <<>>
        ELSE owner_reference(fs, metadata)
               \o pod_labels(fs, metadata)
               \o pod_annotations(fs, metadata))

\* the node name written at the path configured for the pod name
annotate_from_pod_spec_at_pod_name(fs, pod_spec) ==
  IF fs["pod_name"] # None /\ pod_spec.node_name # None
  THEN <<InsertCall("pod_node_name", fs["pod_name"][1], Bytes(pod_spec.node_name[1]))>>
  ELSE <<>>

annotate_from_pod_spec(fs, pod_spec) ==
  insert_if_some(fs, "pod_node_name", pod_spec.node_name)

RECURSIVE filter_map_ip(_)
\* val.iter().filter_map(|v| v.ip.clone()).collect::<Vec<String>>()
filter_map_ip(val) ==
  IF val = <<>> THEN <<>>
  ELSE (IF Head(val).ip # None THEN <<Head(val).ip[1]>> ELSE <<>>)
         \o filter_map_ip(Tail(val))

\* nothing written when no entry has an address
pod_ips_skip_empty(fs, pod_status) ==
  IF fs["pod_ips"] # None /\ pod_status.pod_ips # None
     /\ filter_map_ip(pod_status.pod_ips[1]) # <<>>
  THEN <<InsertCall("pod_ips", fs["pod_ips"][1], Array(filter_map_ip(pod_status.pod_ips[1])))>>
  ELSE <<>>

pod_ips(fs, pod_status) ==
  IF fs["pod_ips"] # None /\ pod_status.pod_ips # None
  THEN <<InsertCall("pod_ips", fs["pod_ips"][1], Array(filter_map_ip(pod_status.pod_ips[1])))>>
  ELSE <<>>

annotate_from_pod_status(fs, pod_status) ==
  insert_if_some(fs, "pod_ip", pod_status.pod_ip) \o pod_ips(fs, pod_status)

annotate_from_container_status(fs, container_status) ==
  insert_if_some(fs, "container_id", container_status.container_id)

annotate_from_container(fs, container) ==
  insert_if_some(fs, "container_image", container.image)

RECURSIVE find_last(_, _)
\* the last entry of that name instead of the first
find_last(list, name) ==
  IF list = <<>> THEN None
  ELSE IF find_last(Tail(list), name) # None THEN find_last(Tail(list), name)
  ELSE IF Head(list).name = name THEN Some(Head(list))
  ELSE None

RECURSIVE find(_, _)
\* list.iter().find(|c| c.name == name)
find(list, name) ==
  IF list = <<>> THEN None
  ELSE IF Head(list).name = name THEN Some(Head(list))
  ELSE find(Tail(list), name)

\* if let Some(ref pod_spec) = pod.spec { ... }
from_spec(fs, fi, spec) ==
  IF spec = None THEN <<>>
  ELSE LET pod_spec == spec[1]
           container == find(pod_spec.containers, fi.container_name)
       IN  annotate_from_pod_spec(fs, pod_spec)
             \o (IF container # None THEN annotate_from_container(fs, container[1])
                 ELSE <<>>)

\* if let Some(ref pod_status) = pod.status { ... }
from_status(fs, fi, status) ==
  IF status = None THEN <<>>
  ELSE LET pod_status == status[1]
           container_status ==
             IF pod_status.container_statuses = None THEN None
             ELSE find(pod_status.container_statuses[1], fi.container_name)
       IN  annotate_from_pod_status(fs, pod_status)
             \o (IF container_status # None
                 THEN annotate_from_container_status(fs, container_status[1])
                 ELSE <<>>)

\* the pod uid taken from the path instead of the pod's metadata
annotate_inserts_uid_of_path(fs, fi, metadata, spec, status) ==
  annotate_from_file_info(fs, fi)
    \o annotate_from_metadata(fs, [metadata EXCEPT !.uid = Some(fi.pod_uid)])
    \o (IF owner_reference_panics(fs, metadata) THEN <<>>
        ELSE from_spec(fs, fi, spec) \o from_status(fs, fi, status))

\* the inserts of annotate once the pod is resolved, up to its return or panic
annotate_inserts(fs, fi, metadata, spec, status) ==
  annotate_from_file_info(fs, fi)
    \o annotate_from_metadata(fs, metadata)
    \o (IF owner_reference_panics(fs, metadata) THEN <<>>
        ELSE from_spec(fs, fi, spec) \o from_status(fs, fi, status))

\* ---------------------------------------------------------------- the store

\* ObjectRef::<Pod>::new(name).within(namespace)
ObjectRef(namespace, name) == <<namespace, name>>

\* the lookup without .within(namespace): any pod of that name
get_by_name(store, fi) ==
  LET objs == {k \in DOMAIN store : k[2] = fi.pod_name}
  IN  IF objs # {} THEN Some(store[CHOOSE k \in objs : TRUE]) ELSE None

\* self.pods_state_reader.get(&ObjectRef::new(pod_name).within(pod_namespace))
get(store, fi) ==
  LET obj == ObjectRef(fi.pod_namespace, fi.pod_name)
  IN  IF obj \in DOMAIN store THEN Some(store[obj]) ELSE None

EmptyStore == [k \in {} |-> BasePod]

\* ---------------------------------------------------------------- actions

Init ==
  /\ fields_spec \in FieldsSpecs
  /\ cluster \in Clusters
  /\ cache = EmptyStore
  /\ event \in Events
  /\ event0 = event
  /\ pc = "idle"
  /\ file = None
  /\ file_info = None
  /\ resource = None
  /\ reads = 0
  /\ inserts = <<>>
  /\ ret = None
  /\ previous = None

\* the reflector's writer stores a pod object the watch delivered
WatchApply(pod) ==
  LET obj == ObjectRef(pod.metadata.namespace[1], pod.metadata.name[1])
  IN  /\ cache' = [k \in DOMAIN cache \cup {obj} |-> IF k = obj THEN pod ELSE cache[k]]
      /\ cache' # cache
      /\ UNCHANGED <<fields_spec, cluster, event, event0, pc, file, file_info,
                     resource, reads, inserts, ret, previous>>

\* the reflector's writer drops a deleted pod
WatchDelete(obj) ==
  /\ obj \in DOMAIN cache
  /\ cache' = [k \in DOMAIN cache \ {obj} |-> cache[k]]
  /\ UNCHANGED <<fields_spec, cluster, event, event0, pc, file, file_info,
                 resource, reads, inserts, ret, previous>>

\* annotate, up to and including its read of the store: parse_log_file_path(file)?
\* and self.pods_state_reader.get(&obj)?
AnnotateLookup(f) ==
  /\ pc = "idle"
  /\ file' = Some(f)
  /\ file_info' = parse_log_file_path(f)
  /\ resource' = IF file_info' = None THEN None ELSE get(cache, file_info'[1])
  /\ reads' = IF file_info' = None THEN 0 ELSE 1
  /\ pc' = IF resource' = None THEN "done" ELSE "found"
  /\ ret' = None
  /\ UNCHANGED <<fields_spec, cluster, cache, event, event0, inserts, previous>>

\* pod.status read from the store a second time, after the metadata and the spec
AnnotateProjectRereads ==
  /\ pc = "found"
  /\ LET pod == resource[1]
         fi == file_info[1]
         again == get(cache, fi)
         status == IF again = None THEN None ELSE again[1].status
         panics == owner_reference_panics(fields_spec, pod.metadata)
     IN  /\ inserts' = annotate_inserts(fields_spec, fi, pod.metadata, pod.spec, status)
         /\ event' = ApplyInserts(event, inserts')
         /\ pc' = IF panics THEN "panicked" ELSE "done"
         /\ ret' = IF panics THEN None ELSE Some(fi)
  /\ UNCHANGED <<fields_spec, cluster, cache, event0, file, file_info, resource, reads,
                 previous>>

\* an array the record already holds at the pod_ips path is extended, not replaced
AnnotateProjectExtendsPodIps ==
  /\ pc = "found"
  /\ LET pod == resource[1]
         fi == file_info[1]
         panics == owner_reference_panics(fields_spec, pod.metadata)
         ws == annotate_inserts(fields_spec, fi, pod.metadata, pod.spec, pod.status)
         extended(w) ==
           IF w.slot = "pod_ips" /\ w.path \in DOMAIN event
              /\ event[w.path].kind = "array"
           THEN [w EXCEPT !.value = Array(event[w.path].array \o w.value.array)]
           ELSE w
     IN  /\ inserts' = [k \in 1..Len(ws) |-> extended(ws[k])]
         /\ event' = ApplyInserts(event, inserts')
         /\ pc' = IF panics THEN "panicked" ELSE "done"
         /\ ret' = IF panics THEN None ELSE Some(fi)
  /\ UNCHANGED <<fields_spec, cluster, cache, event0, file, file_info, resource, reads,
                 previous>>

\* annotate, from the resolved pod to its return: the projectors, in order
AnnotateProject ==
  /\ pc = "found"
  /\ LET pod == resource[1]
         fi == file_info[1]
         panics == owner_reference_panics(fields_spec, pod.metadata)
     IN  /\ inserts' = annotate_inserts(fields_spec, fi, pod.metadata, pod.spec, pod.status)
         /\ event' = ApplyInserts(event, inserts')
         /\ pc' = IF panics THEN "panicked" ELSE "done"
         /\ ret' = IF panics THEN None ELSE Some(fi)
  /\ UNCHANGED <<fields_spec, cluster, cache, event0, file, file_info, resource, reads,
                 previous>>

\* annotate called again with the same file on the event it has just annotated,
\* the store holding for the path's pod what the call before read: up to and
\* including the read of the store
AnnotateAgain ==
  /\ pc \in {"done", "panicked"}
  /\ file # None
  /\ file_info # None => get(cache, file_info[1]) = resource
  /\ previous' = Some([event |-> event, ret |-> ret, pc |-> pc])
  /\ event0' = event
  /\ file_info' = parse_log_file_path(file[1])
  /\ resource' = IF file_info' = None THEN None ELSE get(cache, file_info'[1])
  /\ reads' = IF file_info' = None THEN 0 ELSE 1
  /\ pc' = IF resource' = None THEN "done" ELSE "found"
  /\ ret' = None
  /\ inserts' = <<>>
  /\ UNCHANGED <<fields_spec, cluster, cache, event, file>>

\* annotate_from_metadata called on its own, as tests::test_annotate_from_metadata does
TestAnnotateFromMetadata(metadata) ==
  /\ pc = "idle"
  /\ resource' = Some([metadata |-> metadata, spec |-> None, status |-> None])
  /\ inserts' = annotate_from_metadata(fields_spec, metadata)
  /\ event' = ApplyInserts(event, inserts')
  /\ pc' = "tested"
  /\ UNCHANGED <<fields_spec, cluster, cache, event0, file, file_info, reads, ret,
                 previous>>

\* the caller hands the next log line's event to the annotator
NextEvent(e) ==
  /\ pc \in {"done", "panicked", "tested"}
  /\ event' = e
  /\ event0' = e
  /\ pc' = "idle"
  /\ file' = None
  /\ file_info' = None
  /\ resource' = None
  /\ reads' = 0
  /\ inserts' = <<>>
  /\ ret' = None
  /\ previous' = None
  /\ UNCHANGED <<fields_spec, cluster, cache>>

Next ==
  \/ \E pod \in cluster : WatchApply(pod)
  \/ \E obj \in DOMAIN cache : WatchDelete(obj)
  \/ \E f \in Files : AnnotateLookup(f)
  \/ AnnotateProject
  \/ AnnotateAgain
  \/ \E metadata \in TestMetas : TestAnnotateFromMetadata(metadata)
  \/ \E e \in Events : NextEvent(e)

Spec == Init /\ [][Next]_vars

\* the pods of the behaviours in which the projectors' order is examined: every
\* projector has something to write, two maps hold keys that nest when parsed,
\* or a whole source object is missing
OrderPods ==
  {BasePod,
   [BasePod EXCEPT !.metadata.owner_references = Some(<<[kind |-> <<"Job">>, name |-> <<"job0">>]>>),
                   !.metadata.uid = None],
   [BasePod EXCEPT !.metadata.labels =
                     Some(<<[key |-> <<"a">>, val |-> <<"v0">>],
                            [key |-> <<"a", ".", "b">>, val |-> <<"v1">>]>>),
                   !.metadata.annotations =
                     Some(<<[key |-> <<"a">>, val |-> <<"v0">>],
                            [key |-> <<"a", ".", "b">>, val |-> <<"v1">>]>>)],
   [BasePod EXCEPT !.spec = None],
   [BasePod EXCEPT !.status = None]}

InitOrders == Init /\ cluster \in {{p, PodV2} : p \in OrderPods}

SpecOrders == InitOrders /\ [][Next]_vars

\* ---------------------------------------------------------------- properties

\* a call (annotate, or a projector on its own) has run its projectors on a pod
Projected == pc \in {"done", "panicked", "tested"} /\ resource # None

\* annotate resolved a pod and returned
Returned == pc = "done" /\ resource # None

InsertsOf(slot) == {k \in 1..Len(inserts) : inserts[k].slot = slot}

\* the record holds something at p, below p or on the way to p
Holds(log, p) == \E q \in DOMAIN log : Overlap(p, q)

\* the record holds the value v at the path p
At(log, p, v) == p \in DOMAIN log /\ log[p] = v

\* no other enabled slot of the FieldsSpec writes at, below or above p
PathOwnedBy(slot, p) ==
  \A t \in Slots \ {slot} : fields_spec[t] # None => ~Overlap(fields_spec[t][1], p)

E2EFile == LogFile(<<"ns0">>, <<"pod0">>, <<"uid0">>, <<"app">>, "1")

\* C1: a step of annotate on a path the parser does not recognise, or whose
\* (namespace, pod_name) the store does not hold at that moment, ends the call
\* with None, and the record is the record it was handed: nothing inserted.
C1_NoMatchLeavesRecord ==
  [][(/\ pc = "idle"
      /\ file' # None
      /\ LET fi == parse_log_file_path(file'[1])
         IN  \/ fi = None
             \/ <<fi[1].pod_namespace, fi[1].pod_name>> \notin DOMAIN cache)
     => (pc' = "done" /\ ret' = None /\ event' = event /\ event' = event0'
         /\ inserts' = <<>>)]_vars

C1_Witness ==
  /\ pc = "done"
  /\ file_info # None
  /\ resource = None
  /\ ret = None
  /\ event = PriorLog
  /\ DOMAIN cache = {<<(<<"ns1">>), (<<"pod0">>)>>}
  /\ file_info[1].pod_namespace = <<"ns0">>

\* C2: a disabled slot makes no insert, whatever the pod holds; every field of
\* the record that the call added or changed was inserted for an enabled slot;
\* and when no enabled slot is configured at the disabled slot's default path,
\* a record that was empty holds nothing there.
C2_DisabledSlotNeverWrites ==
  Projected =>
    /\ \A s \in Slots : fields_spec[s] = None =>
         /\ InsertsOf(s) = {}
         /\ (event0 = EmptyLog /\ PathOwnedBy(s, KubernetesPath(s)))
              => ~Holds(event, KubernetesPath(s))
    /\ \A q \in DOMAIN event :
         (q \notin DOMAIN event0 \/ event[q] # event0[q]) =>
           \E k \in 1..Len(inserts) :
             inserts[k].path = q /\ fields_spec[inserts[k].slot] # None

C2_Witness ==
  /\ Returned
  /\ fields_spec = Disable(DefaultFieldsSpec, Slots)
  /\ resource = Some(PodV2)
  /\ file_info[1].container_name = <<"app">>
  /\ event = event0

\* the source attribute of a slot is absent from the pod
Absent(slot, pod) ==
  LET named(list) == {i \in 1..Len(list) : file_info # None
                                            /\ list[i].name = file_info[1].container_name}
  IN  CASE slot = "pod_name" -> pod.metadata.name = None
        [] slot = "pod_namespace" -> pod.metadata.namespace = None
        [] slot = "pod_uid" -> pod.metadata.uid = None
        [] slot = "pod_owner" -> pod.metadata.owner_references = None
        [] slot = "pod_labels" -> pod.metadata.labels = None
        [] slot = "pod_annotations" -> pod.metadata.annotations = None
        [] slot = "pod_node_name" -> pod.spec = None \/ pod.spec[1].node_name = None
        [] slot = "pod_ip" -> pod.status = None \/ pod.status[1].pod_ip = None
        [] slot = "pod_ips" -> pod.status = None \/ pod.status[1].pod_ips = None
        [] slot = "container_image" ->
             \/ pod.spec = None
             \/ \A i \in named(pod.spec[1].containers) :
                  pod.spec[1].containers[i].image = None
        [] slot = "container_id" ->
             \/ pod.status = None
             \/ pod.status[1].container_statuses = None
             \/ \A i \in named(pod.status[1].container_statuses[1]) :
                  pod.status[1].container_statuses[1][i].container_id = None
        [] OTHER -> FALSE

\* C3 as stated: for an enabled slot whose source attribute the pod lacks,
\* annotating an empty record leaves the slot's output path absent, whatever the
\* FieldsSpec configures for the other slots.
C3_PathAbsentWhateverTheFieldsSpec ==
  (Projected /\ event0 = EmptyLog) =>
    \A s \in Slots : (fields_spec[s] # None /\ Absent(s, resource[1])) =>
      ~Holds(event, fields_spec[s][1])

\* C3 (amended): for an enabled slot whose source attribute the pod lacks, no insert is
\* made (no null, no empty placeholder), and a record that was empty holds
\* nothing at the slot's path (no other enabled slot being configured there).
C3_AbsentAttributeNotWritten ==
  Projected =>
    \A s \in Slots : (fields_spec[s] # None /\ Absent(s, resource[1])) =>
      /\ InsertsOf(s) = {}
      /\ (event0 = EmptyLog /\ PathOwnedBy(s, fields_spec[s][1]))
           => ~Holds(event, fields_spec[s][1])

C3_Witness ==
  /\ Returned
  /\ fields_spec = DefaultFieldsSpec
  /\ event0 = EmptyLog
  /\ resource[1].metadata.uid = None
  /\ resource[1].metadata.owner_references = None
  /\ ~Holds(event, KubernetesPath("pod_uid"))
  /\ Holds(event, KubernetesPath("pod_name"))

\* C4: annotate on a cache hit never faults: it returns Some(PathInfo), for
\* every pod the data model allows, a present but empty owner-reference list
\* included.
C4_NoErrorPath ==
  (pc \in {"done", "panicked"} /\ resource # None) => (pc = "done" /\ ret = file_info)

\* C5: with pod_owner enabled and one or more owner references, exactly one
\* insert is made for pod_owner: the string "<kind>/<name>" of the first entry,
\* at the pod_owner path, which the record then holds unless a later insert
\* replaced it.
C5_FirstOwnerOnly ==
  (/\ pc \in {"done", "tested"}
   /\ resource # None
   /\ fields_spec["pod_owner"] # None
   /\ resource[1].metadata.owner_references # None
   /\ Len(resource[1].metadata.owner_references[1]) >= 1) =>
    LET first == resource[1].metadata.owner_references[1][1]
        want == [kind |-> "bytes", bytes |-> first.kind \o <<"/">> \o first.name,
                 array |-> <<>>]
        p == fields_spec["pod_owner"][1]
    IN  /\ Cardinality(InsertsOf("pod_owner")) = 1
        /\ \A k \in InsertsOf("pod_owner") :
             /\ inserts[k].path = p
             /\ inserts[k].value = want
             /\ (\A j \in (k + 1)..Len(inserts) : ~Overlap(inserts[j].path, p))
                  => (p \in DOMAIN event /\ event[p] = want)

C5_Witness ==
  /\ Returned
  /\ fields_spec = DefaultFieldsSpec
  /\ resource[1].metadata.owner_references # None
  /\ Len(resource[1].metadata.owner_references[1]) = 2
  /\ resource[1].metadata.owner_references[1][1] # resource[1].metadata.owner_references[1][2]
  /\ At(event, KubernetesPath("pod_owner"), Bytes(<<"Job", "/", "job0">>))

HasAddress(e) == e.ip # None

\* the addresses of the entries that have one, in list order
Addresses(l) ==
  LET with == SelectSeq(l, HasAddress)
  IN  [i \in 1..Len(with) |-> with[i].ip[1]]

\* C6: with pod_ip and pod_ips enabled and the status present, an insert is
\* made for pod_ip iff the scalar pod IP is present, and one for pod_ips iff the
\* list is present; the pod_ips value is the list of the addresses of the
\* entries that have one, in list order (the empty list when none has), and the
\* record holds it unless a later insert replaced it.
C6_PodIpAndPodIps ==
  (/\ Returned
   /\ resource[1].status # None
   /\ fields_spec["pod_ip"] # None
   /\ fields_spec["pod_ips"] # None) =>
    LET status == resource[1].status[1]
        p == fields_spec["pod_ips"][1]
    IN  /\ (InsertsOf("pod_ip") # {}) <=> (status.pod_ip # None)
        /\ (InsertsOf("pod_ips") # {}) <=> (status.pod_ips # None)
        /\ Cardinality(InsertsOf("pod_ip")) <= 1
        /\ Cardinality(InsertsOf("pod_ips")) <= 1
        /\ \A k \in InsertsOf("pod_ip") :
             /\ inserts[k].path = fields_spec["pod_ip"][1]
             /\ inserts[k].value = Bytes(status.pod_ip[1])
        /\ \A k \in InsertsOf("pod_ips") :
             /\ inserts[k].path = p
             /\ inserts[k].value = Array(Addresses(status.pod_ips[1]))
             /\ (\A j \in (k + 1)..Len(inserts) : ~Overlap(inserts[j].path, p))
                  => (p \in DOMAIN event /\ event[p] = Array(Addresses(status.pod_ips[1])))

C6_Witness ==
  /\ Returned
  /\ fields_spec = DefaultFieldsSpec
  /\ event0 = EmptyLog
  /\ resource[1].status # None
  /\ resource[1].status[1].pod_ip = None
  /\ resource[1].status[1].pod_ips = Some(<<[ip |-> None], [ip |-> None]>>)
  /\ At(event, KubernetesPath("pod_ips"), Array(<<>>))
  /\ ~Holds(event, KubernetesPath("pod_ip"))

\* the entries of the list named as the path's container
Named(list) == {i \in 1..Len(list) : list[i].name = file_info[1].container_name}

FirstNamed(list) == CHOOSE i \in Named(list) : \A j \in Named(list) : i <= j

\* the inserts for a container slot are: one, of the attribute of the first
\* entry of that name, when the slot is enabled, the list holds such an entry
\* and that entry has the attribute; none otherwise
FromFirstNamed(slot, list, attribute(_)) ==
  IF fields_spec[slot] # None /\ list # None /\ Named(list[1]) # {}
     /\ attribute(list[1][FirstNamed(list[1])]) # None
  THEN /\ Cardinality(InsertsOf(slot)) = 1
       /\ \A k \in InsertsOf(slot) :
            /\ inserts[k].path = fields_spec[slot][1]
            /\ inserts[k].value = Bytes(attribute(list[1][FirstNamed(list[1])])[1])
  ELSE /\ InsertsOf(slot) = {}
       /\ (fields_spec[slot] # None /\ event0 = EmptyLog
           /\ PathOwnedBy(slot, fields_spec[slot][1]))
            => ~Holds(event, fields_spec[slot][1])

ImageOf(c) == c.image

ContainerIdOf(c) == c.container_id

\* C7: container_image comes only from the first entry of spec.containers whose
\* name equals the path's container name, container_id only from the first such
\* entry of status.container_statuses; with no such entry (or no spec, status or
\* list) nothing is inserted and the field is absent.
C7_FirstMatchingContainer ==
  Returned =>
    /\ FromFirstNamed("container_image",
                      IF resource[1].spec = None THEN None
                      ELSE Some(resource[1].spec[1].containers),
                      ImageOf)
    /\ FromFirstNamed("container_id",
                      IF resource[1].status = None THEN None
                      ELSE resource[1].status[1].container_statuses,
                      ContainerIdOf)

C7_Witness ==
  /\ Returned
  /\ fields_spec = DefaultFieldsSpec
  /\ event0 = EmptyLog
  /\ file_info[1].container_name = <<"app">>
  /\ resource[1].status # None
  /\ resource[1].status[1].container_statuses =
       Some(<<[name |-> <<"app">>, container_id |-> None],
              [name |-> <<"app">>, container_id |-> Some(<<"cid1">>)]>>)
  /\ ~Holds(event, KubernetesPath("container_id"))
  /\ At(event, KubernetesPath("container_image"), Bytes(<<"img:v1">>))

\* the entries of a map slot are written one by one, each at prefix + key
MapWritten(slot, map) ==
  (fields_spec[slot] # None /\ map # None) =>
    LET prefix == fields_spec[slot][1]
        at(i) == prefix \o << map[1][i].key >>
        want(i) == [kind |-> "bytes", bytes |-> map[1][i].val, array |-> <<>>]
    IN  /\ Cardinality(InsertsOf(slot)) = Len(map[1])
        /\ \A i \in 1..Len(map[1]) :
             \E k \in InsertsOf(slot) :
               /\ inserts[k].path = at(i)
               /\ Len(inserts[k].path) = Len(prefix) + 1
               /\ inserts[k].value = want(i)
               /\ (\A j \in (k + 1)..Len(inserts) : ~Overlap(inserts[j].path, at(i)))
                    => (at(i) \in DOMAIN event /\ event[at(i)] = want(i))
        /\ \A k1, k2 \in InsertsOf(slot) :
             k1 # k2 => ~Overlap(inserts[k1].path, inserts[k2].path)

\* C8: each label and annotation entry (k, v) is inserted at the configured
\* prefix followed by k as one segment (a '.' in k makes no nesting); reading
\* the record at prefix + k yields v unless a later insert replaced it; two
\* keys of one map never share or nest their paths.
C8_KeyIsOneSegment ==
  (pc \in {"done", "tested"} /\ resource # None) =>
    /\ MapWritten("pod_labels", resource[1].metadata.labels)
    /\ MapWritten("pod_annotations", resource[1].metadata.annotations)

C8_Witness ==
  /\ Returned
  /\ fields_spec = DefaultFieldsSpec
  /\ resource[1].metadata.labels # None
  /\ Len(resource[1].metadata.labels[1]) = 2
  /\ At(event, KubernetesPath("pod_labels") \o << <<"a", ".", "b">> >>, Bytes(<<"v1">>))
  /\ At(event, KubernetesPath("pod_labels") \o << <<"a">> >>, Bytes(<<"v0">>))

\* the record of the end-to-end scenario
E2ERecord ==
  (KubernetesPath("container_name") :> Bytes(<<"app">>))
    @@ (KubernetesPath("pod_name") :> Bytes(<<"pod0">>))
    @@ (KubernetesPath("pod_namespace") :> Bytes(<<"ns0">>))
    @@ (KubernetesPath("pod_uid") :> Bytes(<<"uid0">>))
    @@ (<< <<"kubernetes">>, <<"pod_labels">>, <<"tier">> >> :> Bytes(<<"web">>))
    @@ (KubernetesPath("pod_node_name") :> Bytes(<<"node1">>))
    @@ (KubernetesPath("pod_ip") :> Bytes(<<"10", ".", "0", ".", "0", ".", "1">>))
    @@ (KubernetesPath("container_image") :> Bytes(<<"img:v1">>))
    @@ (KubernetesPath("container_id") :> Bytes(<<"cid1">>))

IsE2ECall ==
  /\ fields_spec = DefaultFieldsSpec
  /\ event0 = EmptyLog
  /\ file = Some(E2EFile)
  /\ resource = Some(BasePod)

\* C9: the end-to-end scenario (default FieldsSpec, empty record, path
\* /var/log/pods/ns0_pod0_uid0/app/1.log, the pod of the scenario in the store)
\* yields exactly the nine fields of the scenario and returns the path's info.
C9_EndToEnd ==
  (IsE2ECall /\ pc \in {"done", "panicked"}) =>
    /\ pc = "done"
    /\ event = E2ERecord
    /\ Cardinality(DOMAIN event) = 9
    /\ ret = Some([pod_namespace |-> <<"ns0">>, pod_name |-> <<"pod0">>,
                   pod_uid |-> <<"uid0">>, container_name |-> <<"app">>])

C9_Witness == IsE2ECall /\ pc = "done" /\ event = E2ERecord

\* the values a pod and a path can give rise to
ValuesOf(pod, fi) ==
  LET opt(o) == IF o = None THEN {} ELSE {Bytes(o[1])}
      elems(l) == {l[i] : i \in 1..Len(l)}
      list(o) == IF o = None THEN {} ELSE elems(o[1])
  IN  {Bytes(fi.container_name)}
        \cup opt(pod.metadata.name) \cup opt(pod.metadata.namespace)
        \cup opt(pod.metadata.uid)
        \cup {Bytes(o.kind \o <<"/">> \o o.name) : o \in list(pod.metadata.owner_references)}
        \cup {Bytes(e.val) : e \in list(pod.metadata.labels)}
        \cup {Bytes(e.val) : e \in list(pod.metadata.annotations)}
        \cup (IF pod.spec = None THEN {}
              ELSE opt(pod.spec[1].node_name)
                     \cup UNION {opt(c.image) : c \in elems(pod.spec[1].containers)})
        \cup (IF pod.status = None THEN {}
              ELSE opt(pod.status[1].pod_ip)
                     \cup (IF pod.status[1].pod_ips = None THEN {}
                           ELSE {Array(Addresses(pod.status[1].pod_ips[1]))})
                     \cup UNION {opt(c.container_id) :
                                   c \in list(pod.status[1].container_statuses)})

\* what a call holds once it has read the store
C10_State ==
  /\ reads <= 1
  /\ (pc \in {"found", "done", "panicked"} /\ file_info # None) => reads = 1
  /\ pc = "found" => (resource # None /\ inserts = <<>> /\ event = event0)
  /\ (pc = "done" /\ resource = None) =>
       (ret = None /\ inserts = <<>> /\ event = event0)
  /\ (pc \in {"done", "panicked"} /\ resource # None) =>
       \A k \in 1..Len(inserts) :
         inserts[k].value \in ValuesOf(resource[1], file_info[1])

\* C10: whatever the watch writer does in between, a call reads the store once:
\* the read returns what the store holds for (namespace, pod_name) at that
\* moment, a miss ends the call with no match, the pod read stays the call's pod
\* until it returns, and every value it inserts comes from that pod (or the
\* path), never from another version of the pod.
C10_SingleRead ==
  /\ []C10_State
  /\ [][(pc = "idle" /\ pc' \in {"found", "done"} /\ file_info' # None) =>
          LET obj == <<file_info'[1].pod_namespace, file_info'[1].pod_name>>
          IN  /\ resource' = IF obj \in DOMAIN cache THEN Some(cache[obj]) ELSE None
              /\ (obj \notin DOMAIN cache) => (pc' = "done" /\ ret' = None)]_vars
  /\ [][(pc = "found" /\ pc' # "found") =>
          (resource' = resource /\ reads' = reads /\ pc' \in {"done", "panicked"})]_vars
  /\ [][pc = "found" => (resource' = resource /\ reads' = reads)]_vars

C10_Witness ==
  /\ Returned
  /\ resource = Some(BasePod)
  /\ get(cache, file_info[1]) = Some(PodV2)
  /\ event0 = EmptyLog
  /\ fields_spec = DefaultFieldsSpec
  /\ At(event, KubernetesPath("pod_uid"), Bytes(<<"uid0">>))
  /\ At(event, KubernetesPath("pod_ip"), Bytes(ip1))

\* the projectors, in the order annotate invokes them
Projectors ==
  <<"file_info", "metadata", "pod_spec", "container", "pod_status", "container_status">>

\* the projector that owns a slot
ProjectorOf(slot) ==
  CASE slot = "container_name" -> "file_info"
    [] slot \in {"pod_name", "pod_namespace", "pod_uid", "pod_owner", "pod_labels",
                 "pod_annotations"} -> "metadata"
    [] slot = "pod_node_name" -> "pod_spec"
    [] slot = "container_image" -> "container"
    [] slot \in {"pod_ip", "pod_ips"} -> "pod_status"
    [] slot = "container_id" -> "container_status"

\* the inserts of the call that one projector made, in order
InsertsBy(projector) ==
  LET made(w) == ProjectorOf(w.slot) = projector
  IN  SelectSeq(inserts, made)

\* the orders in which n of the six projectors can be invoked
Orders ==
  [n \in 0..6 |-> {o \in [1..n -> 1..n] : \A i, j \in 1..n : o[i] = o[j] => i = j}]

RECURSIVE InOrder(_, _, _)
\* the inserts of the projectors in the order o, from the i-th on; by[q] are the
\* inserts of the q-th projector
InOrder(by, o, i) ==
  IF i > Len(o) THEN <<>> ELSE by[o[i]] \o InOrder(by, o, i + 1)

\* no two inserts of different projectors are at, under or above one another
ProjectorsWriteDisjointPaths ==
  \A k1, k2 \in 1..Len(inserts) :
    ProjectorOf(inserts[k1].slot) # ProjectorOf(inserts[k2].slot)
      => ~Overlap(inserts[k1].path, inserts[k2].path)

\* the record is the one every order of the projectors produces; a projector
\* that made no insert has no place in an order
SameRecordInEveryOrder ==
  LET made(q) == InsertsBy(Projectors[q]) # <<>>
      wrote == SelectSeq(<<1, 2, 3, 4, 5, 6>>, made)
      by == [q \in 1..Len(wrote) |-> InsertsBy(Projectors[wrote[q]])]
  IN  \A o \in Orders[Len(wrote)] : ApplyInserts(event0, InOrder(by, o, 1)) = event

\* no two enabled slots of different projectors are configured at, under or
\* above one another
ProjectorPathsDistinct(fs) ==
  \A s, t \in Slots :
    (fs[s] # None /\ fs[t] # None /\ ProjectorOf(s) # ProjectorOf(t))
      => ~Overlap(fs[s][1], fs[t][1])

\* C11 as stated: for every FieldsSpec and pod the projectors write pairwise
\* disjoint paths, so the record annotate returns with is the same for every
\* order of the projectors.
C11_DisjointWhateverTheFieldsSpec ==
  Returned => (ProjectorsWriteDisjointPaths /\ SameRecordInEveryOrder)

\* C11 (amended): for every FieldsSpec that configures no two slots of
\* different projectors at, under or above one another, and every pod, the
\* projectors write pairwise disjoint paths and the record annotate returns
\* with is the same for every order of the projectors.
C11_DisjointWhenPathsDistinct ==
  (Returned /\ ProjectorPathsDistinct(fields_spec)) =>
    (ProjectorsWriteDisjointPaths /\ SameRecordInEveryOrder)

C11_Witness ==
  /\ Returned
  /\ fields_spec = DefaultFieldsSpec
  /\ event0 = PriorLog
  /\ resource = Some(PodV2)
  /\ \A q \in 1..6 : InsertsBy(Projectors[q]) # <<>>
  /\ ApplyInserts(event0, InOrder([q \in 1..6 |-> InsertsBy(Projectors[q])],
                                 [i \in 1..6 |-> 7 - i], 1)) = event

\* the pod_uid components a path can hold
PathUids == {<<"uid0">>, <<"uid2">>, <<"uid9">>}

\* the call's path with another pod_uid component
WithUid(u) == [file_info[1] EXCEPT !.pod_uid = u]

\* what a call that resolved a pod holds, whatever the path's pod_uid
C12_State ==
  (pc \in {"done", "panicked"} /\ resource # None) =>
    LET pod == resource[1]
    IN  /\ \A k \in InsertsOf("pod_uid") :
             /\ pod.metadata.uid # None
             /\ inserts[k].value = Bytes(pod.metadata.uid[1])
        /\ (pod.metadata.uid = None \/ fields_spec["pod_uid"] = None)
             => InsertsOf("pod_uid") = {}
        /\ \A u \in PathUids :
             ApplyInserts(event0, annotate_inserts(fields_spec, WithUid(u), pod.metadata,
                                                   pod.spec, pod.status)) = event

\* C12: the pod is resolved by (namespace, pod_name) only: the read of the
\* store gives the same pod whatever the path's pod_uid, the record of the call
\* is the record a call with any other pod_uid in the path (same record, same
\* pod read) produces, and the value inserted for pod_uid is the uid of the
\* pod's metadata, never the path's.
C12_ResolvedByNamespaceAndName ==
  /\ []C12_State
  /\ [][(pc = "idle" /\ pc' \in {"found", "done"} /\ file_info' # None) =>
          \A u \in PathUids :
            resource' = get(cache, [file_info'[1] EXCEPT !.pod_uid = u])]_vars

C12_Witness ==
  /\ Returned
  /\ fields_spec = DefaultFieldsSpec
  /\ file_info[1].pod_uid = <<"uid9">>
  /\ resource[1].metadata.uid = Some(<<"uid0">>)
  /\ At(event, KubernetesPath("pod_uid"), Bytes(<<"uid0">>))
  /\ ret = Some([pod_namespace |-> <<"ns0">>, pod_name |-> <<"pod0">>,
                 pod_uid |-> <<"uid9">>, container_name |-> <<"app">>])

\* C13: annotate called a second time in a row, with the same path, on the
\* event the first call left and against a store that holds for the path's pod
\* what the first call read, ends as the first call ended: the record is the
\* record after the first call and the result is the first call's result.
C13_Idempotent ==
  (pc \in {"done", "panicked"} /\ previous # None) =>
    /\ event = previous[1].event
    /\ event = event0
    /\ ret = previous[1].ret
    /\ pc = previous[1].pc

C13_Witness ==
  /\ Returned
  /\ previous # None
  /\ fields_spec = DefaultFieldsSpec
  /\ resource = Some(PodV2)
  /\ inserts # <<>>
  /\ At(event, << <<"message">> >>, Bytes(<<"hello">>))
  /\ At(event, KubernetesPath("pod_name"), Bytes(<<"pod0">>))
  /\ At(event, KubernetesPath("pod_ips"), Array(<<ip2>>))
  /\ ret = previous[1].ret

====
